---- MODULE Spec2Model ----
(***************************************************************************)
(* A model of the vex-regularization experiment (vmil19/regularization):   *)
(* senslist.py (SensitivityList) and vexshape.py (mingle, ShapeAnalysis).  *)
(*                                                                         *)
(* Conventions.  A z3 bit-vector value is a record [size, val]; the        *)
(* zero-width stand-in of vexshape.py (class Empty) is the record of size  *)
(* 0.  A bitstring.Bits value is a sequence of 0/1 whose first element is  *)
(* the most significant bit.  A SensitivityList's slist is a sequence of   *)
(* the letters "?", "!", "x"; slist[k] is the tag of bit position k-1      *)
(* (Python index k-1, bit 0 the least significant).  A Python exception    *)
(* that leaves a call is a record [exc |-> name].                          *)
(***************************************************************************)
EXTENDS Integers, Sequences, FiniteSets, TLC

VARIABLES
    slist,      \* SensitivityList.slist
    solver,     \* SensitivityList.solver: None, or the table asserted as P[x] == y
    pc,         \* "idle", or "guess1" while guess is running
    ret,        \* the last call on the SensitivityList and how it ended
    mIn,        \* the arguments of a call of mingle
    mOut,       \* its result, None before the call
    stage,      \* the last phase of the ShapeAnalysis that has run: "phase0", "phase1"
    P,          \* ShapeAnalysis.P: variable-bit value -> shape id
    sensitivity,\* ShapeAnalysis._sensitivity: None or a resolved slist
    shapeTags,  \* ShapeAnalysis.shapeTags: significant Bits -> shape id
    tagSets,    \* ShapeAnalysis.tagSets: shape id -> set of significant Bits
    gen,        \* the generator find_flockings(): its position and locals
    tried,      \* the flockings handed to factorize_flock so far, in order
    yielded,    \* the item the generator yielded last, None before the first
    saErr,      \* the exception that ended the last ShapeAnalysis call, or None
    spec,       \* ShapeAnalysis.spec, the field spec of the instruction
    oracle,     \* vexSignature on the n-th encoding enumerated: [sig, ops]
    pool,       \* the pool's tasks: how many are submitted, started, and which are done
    sweep,      \* phase0_VEX: its position, its locals and the tables it fills
    fIn,        \* a call of formulaFor: the tables P and OPS, opNum, shapeN
    fOut        \* how it ended, None before the call

sensVars == <<slist, solver, pc, ret>>

mingleVars == <<mIn, mOut>>

flockVars == <<stage, P, sensitivity, shapeTags, tagSets, gen, tried, yielded, saErr>>

sweepVars == <<spec, oracle, pool, sweep>>

formulaVars == <<fIn, fOut>>

vars == <<sensVars, mingleVars, flockVars, sweepVars, formulaVars>>

(***************************************************************************)
(* Bounds of the model.                                                    *)
(***************************************************************************)
MaxWidth == 3       \* widths of the SensitivityLists explored
NumShapes == 2      \* values a probed table may take: 0 .. NumShapes-1
MaxMask == 3        \* longest mask, and widest source, handed to mingle
MaxEntropy == 3     \* variable bits of the analysed instruction
MaxFlockShapes == 3 \* distinct shapes of the analysed instruction
MaxSweepBits == 2   \* variable bits of the instruction swept by phase0_VEX
NumSigs == 3        \* distinct signatures the oracle may give
MaxOperand == 3     \* operand values of the oracle: 0 .. MaxOperand

(***************************************************************************)
(* Constants of the program.                                               *)
(***************************************************************************)
MsbIndex == 31      \* the most significant bit of an encoding
nworker == 4        \* processes of the pool

(***************************************************************************)
(* Python and z3 values.                                                   *)
(***************************************************************************)
None == [none |-> TRUE]

Raise(name) == [exc |-> name]

IsRaise(v) == "exc" \in DOMAIN v

\* a call that returns v, where the call may also raise
Return(v) == [val |-> v]

RECURSIVE Pow2(_)
Pow2(n) == IF n <= 0 THEN 1 ELSE 2 * Pow2(n - 1)

BitVecVal(v, n) == [size |-> n, val |-> v % Pow2(n)]

Empty == [size |-> 0, val |-> 0]

\* z3.Extract(high, low, a): bits high..low of a; z3 refuses low > high, a
\* negative index, and an operand that is no bit-vector of more than high bits.
Extract(high, low, a) ==
    IF low > high \/ low < 0 \/ high >= a.size
    THEN Raise("Z3Exception")
    ELSE [size |-> high - low + 1, val |-> (a.val \div Pow2(low)) % Pow2(high - low + 1)]

\* z3.Concat(hi, lo) followed by simplify, on values.
Concat(hi, lo) == [size |-> hi.size + lo.size, val |-> hi.val * Pow2(lo.size) + lo.val]

\* bit k (0 = least significant) of the integer v
BitOf(v, k) == (v \div Pow2(k)) % 2

\* bitstring.Bits(uint=v, length=n): most significant bit first
BitsOfUint(v, n) == [k \in 1..n |-> BitOf(v, n - k)]

RECURSIVE Uint(_)
Uint(bits) ==
    IF Len(bits) = 0 THEN 0
    ELSE 2 * Uint(SubSeq(bits, 1, Len(bits) - 1)) + bits[Len(bits)]

AllBits(n) == {BitsOfUint(v, n) : v \in 0..(Pow2(n) - 1)}

Reversed(s) == [k \in 1..Len(s) |-> s[Len(s) + 1 - k]]

Min(a, b) == IF a <= b THEN a ELSE b

Count(s, letter) == Cardinality({k \in 1..Len(s) : s[k] = letter})

(***************************************************************************)
(* senslist.py                                                             *)
(***************************************************************************)
\* bitsExcept(bv, j): bv with bit j removed.
bitsExcept(bv, j) ==
    IF j = 0 THEN Extract(bv.size - 1, 1, bv)
    ELSE IF j = bv.size - 1 THEN Extract(bv.size - 2, 0, bv)
    ELSE LET hi == Extract(bv.size - 1, j + 1, bv)
             lo == Extract(j - 1, 0, bv)
         IN  IF IsRaise(hi) THEN hi ELSE IF IsRaise(lo) THEN lo ELSE Concat(hi, lo)

\* SensitivityList.__init__
NewSlist(width) == [k \in 1..width |-> "?"]

Tables(width) == [0..(Pow2(width) - 1) -> 0..(NumShapes - 1)]

\* SensitivityList.probeIrrelevant with the solver holding the facts
\* P[x] == p[x] for every x: the negated theorem is satisfiable exactly when
\* two values v1, v2 make P differ while j1 == j2.  Building j1 raises when
\* Extract refuses its arguments, whatever the values.
probeIrrelevant(p, width, bitPosition) ==
    LET j(v) == bitsExcept(BitVecVal(v, width), bitPosition)
        dom == 0..(Pow2(width) - 1)
    IN  IF IsRaise(j(0)) THEN j(0)
        ELSE Return(~ \E v1 \in dom, v2 \in dom : p[v1] # p[v2] /\ j(v1) = j(v2))

\* list.index('?') as a position 1..width, 0 for ValueError
IndexOfUnknown(sl) ==
    IF \E k \in 1..Len(sl) : sl[k] = "?"
    THEN CHOOSE k \in 1..Len(sl) : sl[k] = "?" /\ \A m \in 1..(k - 1) : sl[m] # "?"
    ELSE 0

\* the letter guess1 writes for a probe's verdict
LetterFor(x) == IF x THEN "x" ELSE "!"

\* entropy counting every tag that is not 'x'
entropy_countsUnknown(sl) == Len(SelectSeq(sl, LAMBDA x : x # "x"))

\* SensitivityList.entropy
entropy(sl) == Len(SelectSeq(sl, LAMBDA x : x = "!"))

\* SensitivityList.isInsensitive
isInsensitive(sl) == entropy(sl) = 0

\* SensitivityList.slLetter_to_FieldSpecElement: 1 (one variable bit) for
\* '!', the literal '0' for 'x'; for '?' the call of error(...) raises.
slLetter_to_FieldSpecElement(letter) ==
    IF letter = "!" THEN [free |-> 1]
    ELSE IF letter = "x" THEN [lit |-> <<0>>]
    ELSE Raise("NameError")

\* SensitivityList.asFieldSpec
asFieldSpec(sl) ==
    LET l == [k \in 1..Len(sl) |-> slLetter_to_FieldSpecElement(sl[k])]
    IN  IF \E k \in 1..Len(l) : IsRaise(l[k]) THEN Raise("NameError")
        ELSE Return(Reversed(l))

\* filterRelevantMembers zipping slist as stored, least significant first
filterRelevantMembers_unreversed(sl, aList) ==
    LET z == [k \in 1..Min(Len(sl), Len(aList)) |-> <<sl[k], aList[k]>>]
        relevantElems == SelectSeq(z, LAMBDA rel_bit : rel_bit[1] = "!")
    IN  [k \in 1..Len(relevantElems) |-> relevantElems[k][2]]

\* SensitivityList.filterRelevantMembers
filterRelevantMembers(sl, aList) ==
    LET rev == Reversed(sl)
        z == [k \in 1..Min(Len(sl), Len(aList)) |-> <<rev[k], aList[k]>>]
        relevantElems == SelectSeq(z, LAMBDA rel_bit : rel_bit[1] = "!")
    IN  [k \in 1..Len(relevantElems) |-> relevantElems[k][2]]

\* SensitivityList.significantSlice
significantSlice(sl, bits) == filterRelevantMembers(sl, bits)

(***************************************************************************)
(* The bit enumerator bit_iter.encodingspec_to_iter, which the repository  *)
(* imports: every combination of the free positions of a field spec, the   *)
(* literal positions held, as a sequence of Bits.                          *)
(***************************************************************************)
RECURSIVE FreeCount(_)
FreeCount(fs) ==
    IF Len(fs) = 0 THEN 0
    ELSE (IF "free" \in DOMAIN fs[1] THEN fs[1].free ELSE 0) + FreeCount(Tail(fs))

RECURSIVE FillSpec(_, _)
FillSpec(fs, freeBits) ==
    IF Len(fs) = 0 THEN <<>>
    ELSE IF "free" \in DOMAIN fs[1]
         THEN SubSeq(freeBits, 1, fs[1].free)
              \o FillSpec(Tail(fs), SubSeq(freeBits, fs[1].free + 1, Len(freeBits)))
         ELSE fs[1].lit \o FillSpec(Tail(fs), freeBits)

encodingspec_to_iter(fs) ==
    [n \in 1..Pow2(FreeCount(fs)) |-> FillSpec(fs, BitsOfUint(n - 1, FreeCount(fs)))]

(***************************************************************************)
(* The life of one SensitivityList.                                        *)
(***************************************************************************)
NoCall == [op |-> "none"]

\* find_flockings() has not been called
NoGenerator == [pc |-> "none"]

\* a call on the SensitivityList touches nothing else
SensFrame == UNCHANGED <<mingleVars, flockVars, sweepVars, formulaVars>>

SensInit ==
    /\ \E width \in 1..MaxWidth : slist = NewSlist(width)
    /\ solver = None
    /\ pc = "idle"
    /\ ret = NoCall

\* guess(p), up to the call of guess1: a fresh solver with the whole table.
Guess(p) ==
    /\ pc = "idle"
    /\ solver' = p
    /\ pc' = "guess1"
    /\ ret' = [op |-> "guess", arg |-> p, before |-> slist]
    /\ UNCHANGED slist
    /\ SensFrame

\* one activation of guess1, and guess's last two lines when it returns
Guess1 ==
    /\ pc = "guess1"
    /\ LET i == IndexOfUnknown(slist)
           x == probeIrrelevant(solver, Len(slist), i - 1)
       IN  IF i = 0
           THEN /\ solver' = None
                /\ pc' = "idle"
                /\ ret' = ret @@ [out |-> Return("self")]
                /\ UNCHANGED slist
           ELSE IF IsRaise(x)
           THEN /\ pc' = "idle"
                /\ ret' = ret @@ [out |-> x]
                /\ UNCHANGED <<slist, solver>>
           ELSE /\ slist' = [slist EXCEPT ![i] = LetterFor(x.val)]
                /\ UNCHANGED <<solver, pc, ret>>
    /\ SensFrame

AsFieldSpec ==
    /\ pc = "idle"
    /\ ret' = [op |-> "asFieldSpec", out |-> asFieldSpec(slist)]
    /\ UNCHANGED <<slist, solver, pc>>
    /\ SensFrame

SignificantSlice(bits) ==
    /\ pc = "idle"
    /\ ret' = [op |-> "significantSlice", arg |-> bits, out |-> Return(significantSlice(slist, bits))]
    /\ UNCHANGED <<slist, solver, pc>>
    /\ SensFrame

Entropy ==
    /\ pc = "idle"
    /\ ret' = [op |-> "entropy", out |-> Return(entropy(slist))]
    /\ UNCHANGED <<slist, solver, pc>>
    /\ SensFrame

SensNext ==
    \/ \E p \in Tables(Len(slist)) : Guess(p)
    \/ Guess1
    \/ AsFieldSpec
    \/ \E bits \in AllBits(Len(slist)) : SignificantSlice(bits)
    \/ Entropy

SensIdle ==
    /\ slist = <<>>
    /\ solver = None
    /\ pc = "off"
    /\ ret = NoCall

MingleIdle == mIn = None /\ mOut = None

FlockIdle ==
    /\ stage = "off"
    /\ P = None /\ sensitivity = None /\ shapeTags = None /\ tagSets = None
    /\ gen = NoGenerator /\ tried = <<>> /\ yielded = None /\ saErr = None

SweepIdle == spec = None /\ oracle = None /\ pool = None /\ sweep = None

FormulaIdle == fIn = None /\ fOut = None

Init == SensInit /\ MingleIdle /\ FlockIdle /\ SweepIdle /\ FormulaIdle

Next == SensNext

Spec == Init /\ [][Next]_vars

(***************************************************************************)
(* vexshape.py: mingle                                                     *)
(***************************************************************************)
\* the same with the least significant bit of a source taken first
RECURSIVE mingle_lsbFirst(_, _, _)
mingle_lsbFirst(leftBV, rightBV, mask) ==
    IF leftBV.size + rightBV.size # Len(mask) THEN Raise("Exception")
    ELSE IF Len(mask) = 0 THEN Empty
    ELSE LET src == IF mask[1] = 1 THEN rightBV ELSE leftBV
             sz == src.size
             leftmost == Extract(0, 0, src)
             rest == IF sz > 1 THEN Extract(sz - 1, 1, src) ELSE Empty
             tail == IF mask[1] = 1 THEN mingle_lsbFirst(leftBV, rest, Tail(mask))
                     ELSE mingle_lsbFirst(rest, rightBV, Tail(mask))
         IN  IF IsRaise(leftmost) THEN leftmost
             ELSE IF IsRaise(tail) THEN tail
             ELSE IF tail.size = 0 THEN leftmost
             ELSE Concat(leftmost, tail)

\* mingle(leftBV, rightBV, mask): walking the mask from its first (most
\* significant) position, the next most significant bit of rightBV where the
\* mask bit is set, of leftBV where it is clear.
RECURSIVE mingle(_, _, _)
mingle(leftBV, rightBV, mask) ==
    IF leftBV.size + rightBV.size # Len(mask) THEN Raise("Exception")
    ELSE IF Len(mask) = 0 THEN Empty
    ELSE IF mask[1] = 1
    THEN LET sz == rightBV.size
             leftmost == Extract(sz - 1, sz - 1, rightBV)
             rest == IF sz > 1 THEN Extract(sz - 2, 0, rightBV) ELSE Empty
             tail == mingle(leftBV, rest, Tail(mask))
         IN  IF IsRaise(leftmost) THEN leftmost
             ELSE IF IsRaise(tail) THEN tail
             ELSE IF tail.size = 0 THEN leftmost
             ELSE Concat(leftmost, tail)
    ELSE LET sz == leftBV.size
             leftmost == Extract(sz - 1, sz - 1, leftBV)
             rest == IF sz > 1 THEN Extract(sz - 2, 0, leftBV) ELSE Empty
             tail == mingle(rest, rightBV, Tail(mask))
         IN  IF IsRaise(leftmost) THEN leftmost
             ELSE IF IsRaise(tail) THEN tail
             ELSE IF tail.size = 0 THEN leftmost
             ELSE Concat(leftmost, tail)

\* the bit-vector values of n bits; for n = 0 the one value Empty
BitVecs(n) == {BitVecVal(v, n) : v \in 0..(Pow2(n) - 1)}

MingleInit ==
    /\ \E lenL \in 0..MaxMask, lenR \in 0..MaxMask, lenM \in 0..MaxMask :
         \E l \in BitVecs(lenL), r \in BitVecs(lenR), mask \in AllBits(lenM) :
            mIn = [l |-> l, r |-> r, mask |-> mask]
    /\ mOut = None

Mingle ==
    /\ mOut = None
    /\ mOut' = mingle(mIn.l, mIn.r, mIn.mask)
    /\ UNCHANGED <<mIn, sensVars, flockVars, sweepVars, formulaVars>>

MingleNext == Mingle

MingleSpecInit == MingleInit /\ SensIdle /\ FlockIdle /\ SweepIdle /\ FormulaIdle

SpecMingle == MingleSpecInit /\ [][MingleNext]_vars

(***************************************************************************)
(* senslist.py: guess as one call, as ShapeAnalysis uses it                *)
(***************************************************************************)
RECURSIVE guess1(_, _)
guess1(sl, p) ==
    LET i == IndexOfUnknown(sl)
        x == probeIrrelevant(p, Len(sl), i - 1)
    IN  IF i = 0 THEN Return(sl)
        ELSE IF IsRaise(x) THEN x
        ELSE guess1([sl EXCEPT ![i] = LetterFor(x.val)], p)

guess(sl, p) == guess1(sl, p)

(***************************************************************************)
(* vexshape.py: ShapeAnalysis after phase0_VEX                             *)
(***************************************************************************)
\* ShapeAnalysis.entropy, the number of variable bits: P has 2**entropy entries
EntropyOf(table) ==
    CHOOSE e \in 0..Cardinality(DOMAIN table) : Pow2(e) = Cardinality(DOMAIN table)

\* len(self.shapes)
NumShapesOf(table) == Cardinality({table[i] : i \in DOMAIN table})

\* phase0_VEX numbers the shapes 0, 1, ... as it meets them in P's order
FirstSeenOrder(table) ==
    \A i \in DOMAIN table :
        \/ \E j \in 0..(i - 1) : table[j] = table[i]
        \/ table[i] = Cardinality({table[j] : j \in 0..(i - 1)})

\* ShapeAnalysis.computeSensitivity
computeSensitivity(table) == guess(NewSlist(EntropyOf(table)), table)

\* ShapeAnalysis.phase1_shapes: the two dictionaries it builds
phase1_shapeTags(table, sl) ==
    LET encs == encodingspec_to_iter(asFieldSpec(sl).val)
        slice(n) == significantSlice(sl, encs[n])
        last(b) == CHOOSE n \in 1..Len(encs) :
                      slice(n) = b /\ \A m \in (n + 1)..Len(encs) : slice(m) # b
    IN  [b \in {slice(n) : n \in 1..Len(encs)} |-> table[Uint(encs[last(b)])]]

phase1_tagSets(table, sl) ==
    LET encs == encodingspec_to_iter(asFieldSpec(sl).val)
    IN  [k \in 0..(NumShapesOf(table) - 1) |->
            {significantSlice(sl, encs[n]) :
                n \in {m \in 1..Len(encs) : table[Uint(encs[m])] = k}}]

\* the loop of factorize_flock with its last x left out
FlockFacts_shortLoop(tags, flocking) ==
    LET lBits == Cardinality({k \in 1..Len(flocking) : flocking[k] = 0})
        rBits == Cardinality({k \in 1..Len(flocking) : flocking[k] = 1})
    IN  [yx \in {<<BitVecVal(iy, lBits), BitVecVal(ix, rBits)>> :
                    iy \in 0..(Pow2(lBits) - 1), ix \in 0..(Pow2(rBits) - 2)} |->
            tags[BitsOfUint(mingle(yx[1], yx[2], flocking).val, lBits + rBits)]]

\* the ground facts factorize_flock asserts: sh(y, x) == shape for every
\* pair of a left value y and a right value x
FlockFacts(tags, flocking) ==
    LET lBits == Cardinality({k \in 1..Len(flocking) : flocking[k] = 0})
        rBits == Cardinality({k \in 1..Len(flocking) : flocking[k] = 1})
    IN  [yx \in {<<BitVecVal(iy, lBits), BitVecVal(ix, rBits)>> :
                    iy \in 0..(Pow2(lBits) - 1), ix \in 0..(Pow2(rBits) - 1)} |->
            tags[BitsOfUint(mingle(yx[1], yx[2], flocking).val, lBits + rBits)]]

\* a z3 FuncInterp of s with exactly one entry: the entry and the else value
Classifiers(rBits) ==
    [point : BitVecs(rBits), value : BOOLEAN, else : BOOLEAN]

\* the function a classifier stands for
ClassifierAt(c, x) == IF x = c.point THEN c.value ELSE c.else

\* Whether the solver has a model with this s: the composition law
\* ForAll l, r: sh(l,r) == f(t(l), s(r)) and the ground facts leave t and f
\* free, t may give every l a code of its own, and then an f exists exactly
\* when no two facts with the same l and the same s(r) name different shapes.
HasModelWith(facts, c) ==
    \A yx1 \in DOMAIN facts, yx2 \in DOMAIN facts :
        (yx1[1] = yx2[1] /\ ClassifierAt(c, yx1[2]) = ClassifierAt(c, yx2[2]))
            => facts[yx1] = facts[yx2]

\* ShapeAnalysis.factorize_flock: what a call may return.  None when the
\* solver does not say sat, or when the interpretation it gives s has not
\* exactly one entry (the solver is free to list more or fewer); else that
\* interpretation, for any model the solver may pick.
factorize_flock(tags, flocking) ==
    LET rBits == Cardinality({k \in 1..Len(flocking) : flocking[k] = 1})
        facts == FlockFacts(tags, flocking)
    IN  {None} \cup {c \in Classifiers(rBits) : HasModelWith(facts, c)}

Weight(b) == Cardinality({k \in 1..Len(b) : b[k] = 1})

\* list.sort(key=...), keys[i] the key of seq[i]: by key, and stable
SortByKey(seq, keys) ==
    LET before(i, j) == keys[i] < keys[j] \/ (keys[i] = keys[j] /\ i < j)
        rank(i) == Cardinality({j \in 1..Len(seq) : before(j, i)}) + 1
    IN  [n \in 1..Len(seq) |-> seq[CHOOSE i \in 1..Len(seq) : rank(i) = n]]

\* the candidates sorted with the heaviest first
Candidates_heaviestFirst(e) ==
    LET candidates == [k \in 1..(Pow2(e) - 2) |-> BitsOfUint(k, e)]
    IN  SortByKey(candidates, [i \in 1..Len(candidates) |-> e - Weight(candidates[i])])

\* the candidates of find_flockings, sorted by their count of 1 bits
Candidates(e) ==
    LET candidates == [k \in 1..(Pow2(e) - 2) |-> BitsOfUint(k, e)]
    IN  SortByKey(candidates, [i \in 1..Len(candidates) |-> Weight(candidates[i])])

FlockTables ==
    UNION {{t \in [0..(Pow2(e) - 1) -> 0..(MaxFlockShapes - 1)] : FirstSeenOrder(t)} :
              e \in 1..MaxEntropy}

FlockInit ==
    /\ stage = "phase0"
    /\ P \in FlockTables
    /\ sensitivity = None /\ shapeTags = None /\ tagSets = None
    /\ gen = NoGenerator /\ tried = <<>> /\ yielded = None /\ saErr = None

FlockFrame == UNCHANGED <<sensVars, mingleVars, sweepVars, formulaVars>>

\* phase1_shapes(), reading self.sensitivity, which computes it
Phase1 ==
    /\ stage = "phase0" /\ saErr = None
    /\ LET sl == computeSensitivity(P)
       IN  IF IsRaise(sl)
           THEN /\ saErr' = sl
                /\ UNCHANGED <<stage, sensitivity, shapeTags, tagSets>>
           ELSE /\ stage' = "phase1"
                /\ sensitivity' = sl.val
                /\ shapeTags' = phase1_shapeTags(P, sl.val)
                /\ tagSets' = phase1_tagSets(P, sl.val)
                /\ UNCHANGED saErr
    /\ UNCHANGED <<P, gen, tried, yielded>>
    /\ FlockFrame

\* find_flockings() is called: a generator, whose body has not started
FindFlockings ==
    /\ stage = "phase1" /\ gen = NoGenerator
    /\ gen' = [pc |-> "created"]
    /\ UNCHANGED <<stage, P, sensitivity, shapeTags, tagSets, tried, yielded, saErr>>
    /\ FlockFrame

\* the consumer's first next(): the body runs up to its loop
GenBegin ==
    /\ gen.pc = "created"
    /\ gen' = [pc |-> "loop", candidates |-> Candidates(entropy(sensitivity)), idx |-> 1]
    /\ UNCHANGED <<stage, P, sensitivity, shapeTags, tagSets, tried, yielded, saErr>>
    /\ FlockFrame

\* one turn of the loop: factorize_flock on the next candidate, and the
\* yield when it gave a classifier
TryCandidate ==
    /\ gen.pc = "loop" /\ gen.idx <= Len(gen.candidates)
    /\ LET flocking == gen.candidates[gen.idx]
       IN  \E f \in factorize_flock(shapeTags, flocking) :
              /\ tried' = Append(tried, flocking)
              /\ IF f # None
                 THEN /\ yielded' = [flocking |-> flocking, f |-> f]
                      /\ gen' = [gen EXCEPT !.pc = "yield", !.idx = @ + 1]
                 ELSE /\ yielded' = yielded
                      /\ gen' = [gen EXCEPT !.idx = @ + 1]
    /\ UNCHANGED <<stage, P, sensitivity, shapeTags, tagSets, saErr>>
    /\ FlockFrame

\* the consumer asks for the next item
GenResume ==
    /\ gen.pc = "yield"
    /\ gen' = [gen EXCEPT !.pc = "loop"]
    /\ UNCHANGED <<stage, P, sensitivity, shapeTags, tagSets, tried, yielded, saErr>>
    /\ FlockFrame

\* the candidates are used up: StopIteration
GenExhausted ==
    /\ gen.pc = "loop" /\ gen.idx > Len(gen.candidates)
    /\ gen' = [gen EXCEPT !.pc = "done"]
    /\ UNCHANGED <<stage, P, sensitivity, shapeTags, tagSets, tried, yielded, saErr>>
    /\ FlockFrame

FlockNext ==
    \/ Phase1
    \/ FindFlockings
    \/ GenBegin
    \/ TryCandidate
    \/ GenResume
    \/ GenExhausted

FlockSpecInit == FlockInit /\ SensIdle /\ MingleIdle /\ SweepIdle /\ FormulaIdle

SpecFlock == FlockSpecInit /\ [][FlockNext]_vars

(***************************************************************************)
(* vexshape.py: phase0_VEX, the sweep of the oracle over a process pool    *)
(***************************************************************************)
\* varBitPositionsFrom(spec, soFar, msb)
RECURSIVE varBitPositionsFrom(_, _, _)
varBitPositionsFrom(fs, soFar, msb) ==
    IF Len(fs) = 0 THEN soFar
    ELSE IF "lit" \in DOMAIN fs[1]
         THEN varBitPositionsFrom(Tail(fs), soFar, msb - Len(fs[1].lit))
         ELSE varBitPositionsFrom(Tail(fs),
                  [pos \in 1..fs[1].free |-> msb - (pos - 1)] \o soFar, msb - fs[1].free)

\* ShapeAnalysis.computeVarBitPositions: the positions, highest first
computeVarBitPositions(fs) ==
    LET positions == varBitPositionsFrom(fs, <<>>, MsbIndex)
    IN  SortByKey(positions, [i \in 1..Len(positions) |-> 0 - positions[i]])

\* ShapeAnalysis.variableSlice, as the integer phase0_VEX makes of it
variableSlice(fs, full) ==
    LET vbp == computeVarBitPositions(fs)
    IN  [n \in 1..Len(vbp) |-> full[MsbIndex - vbp[n] + 1]]

encodingInt(fs, full) == Uint(variableSlice(fs, full))

\* the result the main thread may fetch next, taking whichever is ready
NextResult_asCompleted(got, done) == done \ got

\* the result the main thread may fetch next: multiple_results is walked in
\* the order of submission, and res.get() waits for that task
NextResult(got, done) ==
    IF (Cardinality(got) + 1) \in done THEN {Cardinality(got) + 1} ELSE {}

Zeros(n) == [k \in 1..n |-> 0]

\* field specs of MsbIndex+1 bits with n1 and n2 free bits in two places
SweepSpec(n1, n2) ==
    << [lit |-> <<0, 1>>], [free |-> n1], [lit |-> Zeros(MsbIndex - 2 - n1 - n2)],
       [free |-> n2], [lit |-> <<1>>] >>

SweepSpecs ==
    UNION {{SweepSpec(n1, n2) : n2 \in 1..(MaxSweepBits - n1)} : n1 \in 0..MaxSweepBits}

\* what the oracle may be: any signature for each encoding, and for the
\* operands either a constant or the value of the variable bits
Oracles(fs) ==
    LET encs == encodingspec_to_iter(fs)
    IN  UNION {{[n \in 1..Len(encs) |-> [sig |-> sg[n], ops |-> <<0>>]],
                [n \in 1..Len(encs) |-> [sig |-> sg[n], ops |-> <<encodingInt(fs, encs[n])>>]]} :
                  sg \in [1..Len(encs) -> 1..NumSigs]}

SweepInit ==
    /\ spec \in SweepSpecs
    /\ oracle \in Oracles(spec)
    /\ pool = [submitted |-> 0, started |-> 0, done |-> {}]
    /\ sweep = [pc |-> "submit", got |-> {}, k |-> 0, l |-> 0,
                specimens |-> <<>>, shapes |-> <<>>, shapeIndices |-> <<>>,
                P |-> [i \in 0..(Pow2(FreeCount(spec)) - 1) |-> None],
                OPS |-> [i \in 0..(Pow2(FreeCount(spec)) - 1) |-> None]]

SweepFrame == UNCHANGED <<sensVars, mingleVars, flockVars, formulaVars, spec, oracle>>

NumTasks == Len(encodingspec_to_iter(spec))

\* pool.apply_async for the next encoding of the enumeration
Submit ==
    /\ sweep.pc = "submit" /\ pool.submitted < NumTasks
    /\ pool' = [pool EXCEPT !.submitted = @ + 1]
    /\ UNCHANGED sweep
    /\ SweepFrame

\* the list of results is complete: the loop over it starts
StartCollect ==
    /\ sweep.pc = "submit" /\ pool.submitted = NumTasks
    /\ sweep' = [sweep EXCEPT !.pc = "collect"]
    /\ UNCHANGED pool
    /\ SweepFrame

\* a free worker takes the oldest task waiting
WorkerStart ==
    /\ pool.started < pool.submitted
    /\ Cardinality((1..pool.started) \ pool.done) < nworker
    /\ pool' = [pool EXCEPT !.started = @ + 1]
    /\ UNCHANGED sweep
    /\ SweepFrame

\* a worker finishes its task, whichever
WorkerDone(n) ==
    /\ n \in (1..pool.started) \ pool.done
    /\ pool' = [pool EXCEPT !.done = @ \cup {n}]
    /\ UNCHANGED sweep
    /\ SweepFrame

\* one turn of the loop over multiple_results
Collect(n) ==
    /\ sweep.pc = "collect"
    /\ n \in NextResult(sweep.got, pool.done)
    /\ LET encoding == encodingspec_to_iter(spec)[n]
           thisSig == oracle[n].sig
           new == thisSig \notin DOMAIN sweep.specimens
           k == sweep.k
           indices == IF new THEN sweep.shapeIndices @@ (thisSig :> k) ELSE sweep.shapeIndices
           eInt == encodingInt(spec, encoding)
       IN  sweep' = [sweep EXCEPT
                !.got = @ \cup {n},
                !.l = @ + 1,
                !.specimens = IF new THEN @ @@ (thisSig :> encoding) ELSE @,
                !.shapes = IF new THEN @ @@ (k :> thisSig) ELSE @,
                !.shapeIndices = indices,
                !.k = IF new THEN k + 1 ELSE k,
                !.P = [@ EXCEPT ![eInt] = Return(indices[thisSig])],
                !.OPS = [@ EXCEPT ![eInt] = Return(oracle[n].ops)]]
    /\ UNCHANGED pool
    /\ SweepFrame

\* the list is used up: "results processed", the pool is closed
EndSweep ==
    /\ sweep.pc = "collect" /\ sweep.l = NumTasks
    /\ sweep' = [sweep EXCEPT !.pc = "done"]
    /\ UNCHANGED pool
    /\ SweepFrame

SweepNext ==
    \/ Submit
    \/ StartCollect
    \/ WorkerStart
    \/ \E n \in 1..NumTasks : WorkerDone(n)
    \/ \E n \in 1..NumTasks : Collect(n)
    \/ EndSweep

SweepSpecInit == SweepInit /\ SensIdle /\ MingleIdle /\ FlockIdle /\ FormulaIdle

SpecSweep == SweepSpecInit /\ [][SweepNext]_vars

(***************************************************************************)
(* vexshape.py: OperandProjection and formulaFor                           *)
(***************************************************************************)
\* OperandProjection.__getitem__
OperandProjection(OPS, SHAPES, correctShape, opIndex) ==
    [k \in DOMAIN SHAPES |->
        IF SHAPES[k] # correctShape THEN 0 - 1 ELSE OPS[k][opIndex + 1]]

\* the parameters of SensitivityList.guess after self
guessParameters == <<"p">>

\* a call sl.guess(*args): Python refuses a call whose positional arguments
\* are not as many as the parameters
CallGuess(sl, args) ==
    IF Len(args) # Len(guessParameters) THEN Raise("TypeError")
    ELSE guess(sl, args[1])

\* the index specimenEncodingOfShape(shapeN).uint: the variable bits of the
\* first encoding phase0_VEX met with that shape
specimenIndexOfShape(table, shapeN) ==
    CHOOSE i \in DOMAIN table : table[i] = shapeN /\ \A j \in 0..(i - 1) : table[j] # shapeN

\* ShapeAnalysis.formulaFor.  The call of guess is made with three
\* arguments.  Past it, an insensitive operand is returned as the constant
\* formula, and the loop over the compressed domain starts by calling
\* fiber, which SensitivityList does not have.
formulaFor(table, OPS, opNum, shapeN) ==
    LET proj == OperandProjection(OPS, table, shapeN, opNum)
        sl == NewSlist(EntropyOf(table))
        opSensitivity == CallGuess(sl, <<proj, table, shapeN>>)
    IN  IF IsRaise(opSensitivity) THEN opSensitivity
        ELSE IF isInsensitive(opSensitivity.val)
        THEN Return([sens |-> opSensitivity.val, a |-> 0,
                     b |-> proj[specimenIndexOfShape(table, shapeN)]])
        ELSE Raise("AttributeError")

FormulaInit ==
    /\ \E e \in 1..MaxSweepBits :
         \E table \in {t \in [0..(Pow2(e) - 1) -> 0..(NumSigs - 1)] : FirstSeenOrder(t)},
            OPS \in [0..(Pow2(e) - 1) -> {<<v>> : v \in 0..MaxOperand}] :
            \E shapeN \in {table[i] : i \in DOMAIN table} :
               fIn = [P |-> table, OPS |-> OPS, opNum |-> 0, shapeN |-> shapeN]
    /\ fOut = None

FormulaFor ==
    /\ fOut = None
    /\ fOut' = formulaFor(fIn.P, fIn.OPS, fIn.opNum, fIn.shapeN)
    /\ UNCHANGED <<fIn, sensVars, mingleVars, flockVars, sweepVars>>

FormulaNext == FormulaFor

FormulaSpecInit == FormulaInit /\ SensIdle /\ MingleIdle /\ FlockIdle /\ SweepIdle

SpecFormula == FormulaSpecInit /\ [][FormulaNext]_vars

(***************************************************************************)
(* Claims about SensitivityList.                                           *)
(***************************************************************************)
Unknowns(sl) == {k \in 1..Len(sl) : sl[k] = "?"}

Resolved(sl) == Unknowns(sl) = {}

\* the last call was guess and it has ended, by returning or by raising
GuessEnded == pc = "idle" /\ ret.op = "guess"

\* brute force: no two encodings that agree on every bit but i differ in p
IrrelevantByBruteForce(p, width, i) ==
    \A v1 \in 0..(Pow2(width) - 1), v2 \in 0..(Pow2(width) - 1) :
        (\A k \in 0..(width - 1) : k # i => BitOf(v1, k) = BitOf(v2, k)) => p[v1] = p[v2]

VerdictsMatch(p, sl) ==
    \A i \in 0..(Len(sl) - 1) :
        sl[i + 1] = (IF IrrelevantByBruteForce(p, Len(sl), i) THEN "x" ELSE "!")

\* C1: after guess(p) on a freshly constructed list of any width W >= 1,
\* the tag of every position i is 'x' exactly when no two encodings that
\* agree on all bits but i differ in p, and '!' otherwise.
C1_GuessMatchesBruteForce ==
    (GuessEnded /\ ret.before = NewSlist(Len(slist))) => VerdictsMatch(ret.arg, slist)

\* what the code does keep of C1: the same, for the widths W >= 2
GuessMatchesBruteForceFromWidth2 ==
    (GuessEnded /\ ret.before = NewSlist(Len(slist)) /\ Len(slist) >= 2)
        => (ret.out = Return("self") /\ VerdictsMatch(ret.arg, slist))

\* C5: in every step a tag changes only from '?' to '!' or 'x', a set tag
\* never changes again, and a guess that ends leaves no tag unknown.
C5_TagsWriteOnceAndGuessResolves ==
    [][ /\ \A k \in 1..Len(slist) :
              slist'[k] # slist[k] => (slist[k] = "?" /\ slist'[k] \in {"!", "x"})
        /\ Len(slist') = Len(slist)
        /\ (pc = "guess1" /\ pc' = "idle") => Resolved(slist') ]_vars

\* what the code does keep of C5: tags are write-once
TagsWriteOnce ==
    [][ /\ \A k \in 1..Len(slist) :
              slist'[k] # slist[k] => (slist[k] = "?" /\ slist'[k] \in {"!", "x"})
        /\ Len(slist') = Len(slist) ]_vars

\* C6: for a fully resolved list, enumerating asFieldSpec() yields exactly
\* 2^entropy distinct encodings of the list's width with every irrelevant
\* position 0, and significantSlice maps them one-to-one onto all bit
\* patterns of length entropy.
C6_FieldSpecRoundTrip ==
    Resolved(slist) =>
        LET fs == asFieldSpec(slist).val
            encs == encodingspec_to_iter(fs)
            e == entropy(slist)
            slices == {significantSlice(slist, encs[n]) : n \in 1..Len(encs)}
        IN  /\ Len(encs) = Pow2(e)
            /\ Cardinality({encs[n] : n \in 1..Len(encs)}) = Pow2(e)
            /\ \A n \in 1..Len(encs) :
                  /\ Len(encs[n]) = Len(slist)
                  /\ \A k \in 1..Len(slist) :
                        slist[k] = "x" => encs[n][Len(slist) + 1 - k] = 0
            /\ slices = AllBits(e)
            /\ Cardinality(slices) = Len(encs)

C6_Witness ==
    /\ Resolved(slist) /\ Len(slist) = 3 /\ entropy(slist) = 2
    /\ slist[1] = "x"
    /\ ret.op = "asFieldSpec" /\ ~IsRaise(ret.out)

\* C7: asking a list that still has an unknown tag for its field spec or for
\* a significant slice ends in an error and returns no value.
C7_UnresolvedReadsFail ==
    (ret.op \in {"asFieldSpec", "significantSlice"} /\ ~Resolved(slist))
        => IsRaise(ret.out)

\* what the code does keep of C7: the field spec of an unresolved list raises
UnresolvedFieldSpecFails ==
    (ret.op = "asFieldSpec" /\ ~Resolved(slist)) => IsRaise(ret.out)

\* C8 as claimed: in every reachable state entropy is the width minus the
\* number of irrelevant tags.
C8_EntropyIsWidthMinusIrrelevant ==
    entropy(slist) = Len(slist) - Count(slist, "x")

\* C8 amended: in every reachable state entropy is the width minus the
\* number of irrelevant tags minus the number of unknown tags, hence the
\* width minus the irrelevant tags once no tag is unknown.
C8_EntropyCountsRelevantTags ==
    /\ entropy(slist) = Len(slist) - Count(slist, "x") - Count(slist, "?")
    /\ Resolved(slist) => entropy(slist) = Len(slist) - Count(slist, "x")
    /\ isInsensitive(slist) <=> (Count(slist, "!") = 0)

C8_Witness ==
    /\ GuessEnded /\ ret.out = Return("self")
    /\ Len(slist) = 3 /\ Count(slist, "x") = 1 /\ entropy(slist) = 2

(***************************************************************************)
(* Claims about mingle.                                                    *)
(***************************************************************************)
\* the elements of bits at the positions where mask holds b, in order
Pick(bits, mask, b) ==
    LET idx == SelectSeq([k \in 1..Len(mask) |-> k], LAMBDA k : mask[k] = b)
    IN  [n \in 1..Len(idx) |-> bits[idx[n]]]

MaskCount(mask, b) == Cardinality({k \in 1..Len(mask) : mask[k] = b})

Mingled == mOut # None

\* C9: when the sizes of the two sources do not add up to the mask length
\* mingle raises; for sources of L and R bits under a mask of L zeros and R
\* ones (L+R >= 1) the result has L+R bits, which read from the most
\* significant show r's bits in order where the mask is 1 and l's bits in
\* order where it is 0; and over all such l and r the results are pairwise
\* different and are all the values of L+R bits.
C9_MingleInterleaves ==
    Mingled =>
        LET n == Len(mIn.mask)
            L == MaskCount(mIn.mask, 0)
            R == MaskCount(mIn.mask, 1)
        IN  /\ mIn.l.size + mIn.r.size # n => mOut = Raise("Exception")
            /\ (mIn.l.size = L /\ mIn.r.size = R /\ n >= 1) =>
                  /\ ~IsRaise(mOut)
                  /\ mOut.size = n
                  /\ Pick(BitsOfUint(mOut.val, n), mIn.mask, 1) = BitsOfUint(mIn.r.val, R)
                  /\ Pick(BitsOfUint(mOut.val, n), mIn.mask, 0) = BitsOfUint(mIn.l.val, L)
                  /\ LET image == {mingle(l, r, mIn.mask) : l \in BitVecs(L), r \in BitVecs(R)}
                     IN  /\ image = BitVecs(n)
                         /\ Cardinality(image) = Pow2(L) * Pow2(R)

C9_Witness ==
    /\ Mingled /\ ~IsRaise(mOut)
    /\ mIn.mask = <<1, 0, 1>> /\ mIn.l = BitVecVal(1, 1) /\ mIn.r = BitVecVal(2, 2)
    /\ mOut = BitVecVal(6, 3)

(***************************************************************************)
(* Claims about the flock search.                                          *)
(***************************************************************************)
LeftBits(flocking) == Cardinality({k \in 1..Len(flocking) : flocking[k] = 0})

RightBits(flocking) == Cardinality({k \in 1..Len(flocking) : flocking[k] = 1})

\* the shape the catalog holds at the pattern mingle(l, r, mask)
TrueShape(l, r, mask) ==
    shapeTags[BitsOfUint(mingle(l, r, mask).val, Len(mask))]

\* a t that gives every left value its own code, and the f read off the
\* catalog for it and the classifier c
CodeOfLeft(mask) == [l \in BitVecs(LeftBits(mask)) |-> l.val]

CombineFor(c, mask) ==
    [a \in (0..(Pow2(LeftBits(mask)) - 1)) \X BOOLEAN |->
        LET rs == {r \in BitVecs(RightBits(mask)) : ClassifierAt(c, r) = a[2]}
        IN  IF rs = {} THEN 0
            ELSE TrueShape(BitVecVal(a[1], LeftBits(mask)), CHOOSE r \in rs : TRUE, mask)]

\* C2: whenever factorize_flock(mask) has given a classifier s, there are
\* functions t and f with shape(mingle(l, r, mask)) = f(t(l), s(r)) for
\* every left value l and right value r.
C2_FlockSoundness ==
    yielded # None =>
        \E t \in {CodeOfLeft(yielded.flocking)}, f \in {CombineFor(yielded.f, yielded.flocking)} :
            \A l \in BitVecs(LeftBits(yielded.flocking)), r \in BitVecs(RightBits(yielded.flocking)) :
                TrueShape(l, r, yielded.flocking) = f[<<t[l], ClassifierAt(yielded.f, r)>>]

C2_Witness ==
    /\ yielded # None
    /\ LeftBits(yielded.flocking) = 2 /\ RightBits(yielded.flocking) = 1
    /\ NumShapesOf(P) = 3

NonTrivialMasks(e) == {b \in AllBits(e) : Weight(b) # 0 /\ Weight(b) # e}

\* C3: find_flockings hands factorize_flock masks of length entropy that
\* are neither all zero nor all one, none twice, in ascending order of
\* weight, each only after every lighter mask, and all of them by the time
\* it is exhausted; and a decomposition is yielded before any heavier
\* candidate has been tried.
C3_FlockSearchOrder ==
    stage = "phase1" =>
        LET e == entropy(sensitivity)
        IN  /\ \A j \in 1..Len(tried) : tried[j] \in NonTrivialMasks(e)
            /\ \A i \in 1..Len(tried), j \in 1..Len(tried) : i # j => tried[i] # tried[j]
            /\ \A i \in 1..Len(tried), j \in 1..Len(tried) :
                  i < j => Weight(tried[i]) <= Weight(tried[j])
            /\ \A j \in 1..Len(tried) : \A m \in NonTrivialMasks(e) :
                  Weight(m) < Weight(tried[j]) => \E i \in 1..(j - 1) : tried[i] = m
            /\ gen.pc = "done" => {tried[j] : j \in 1..Len(tried)} = NonTrivialMasks(e)
            /\ gen.pc = "yield" =>
                  /\ tried[Len(tried)] = yielded.flocking
                  /\ \A j \in 1..Len(tried) : Weight(tried[j]) <= Weight(yielded.flocking)

\* a decomposition of weight 1 was yielded, and the search went on through
\* every candidate of weight 2
C3_Witness ==
    /\ stage = "phase1" /\ gen.pc = "done"
    /\ entropy(sensitivity) = 3
    /\ yielded # None /\ Weight(yielded.flocking) = 1
    /\ Len(tried) = 6

(***************************************************************************)
(* Claims about the sweep phase0_VEX.                                      *)
(***************************************************************************)
SweepEncodings == encodingspec_to_iter(spec)

\* the first place, in the order of enumeration, where the oracle gives sg
FirstPlace(sg) ==
    CHOOSE n \in 1..Len(oracle) :
        oracle[n].sig = sg /\ \A m \in 1..(n - 1) : oracle[m].sig # sg

SigsUpTo(l) == {oracle[n].sig : n \in 1..l}

\* the number a signature gets when they are numbered as first met
FirstSeenId(sg) ==
    Cardinality({s2 \in SigsUpTo(Len(oracle)) : FirstPlace(s2) < FirstPlace(sg)})

\* C10: however the workers' completions interleave, the results are
\* consumed in the order of enumeration; after l of them the shape ids are
\* 0..k-1 in the order the signatures first appear in the enumeration, P and
\* OPS hold exactly the first l encodings' entries, all of which depends on
\* the oracle alone; and once the sweep has ended every entry is set.
C10_SweepDeterministic ==
    sweep.pc \in {"submit", "collect", "done"} =>
        LET l == sweep.l
            N == Len(SweepEncodings)
        IN  /\ sweep.got = 1..l
            /\ sweep.k = Cardinality(SigsUpTo(l))
            /\ DOMAIN sweep.shapes = 0..(sweep.k - 1)
            /\ DOMAIN sweep.shapeIndices = SigsUpTo(l)
            /\ DOMAIN sweep.specimens = SigsUpTo(l)
            /\ \A sg \in SigsUpTo(l) :
                  /\ sweep.shapeIndices[sg] = FirstSeenId(sg)
                  /\ sweep.shapes[FirstSeenId(sg)] = sg
                  /\ sweep.specimens[sg] = SweepEncodings[FirstPlace(sg)]
            /\ \A n \in 1..N :
                  LET i == encodingInt(spec, SweepEncodings[n])
                  IN  IF n <= l
                      THEN /\ sweep.P[i] = Return(FirstSeenId(oracle[n].sig))
                           /\ sweep.OPS[i] = Return(oracle[n].ops)
                      ELSE sweep.P[i] = None /\ sweep.OPS[i] = None
            /\ sweep.pc = "done" =>
                  /\ l = N
                  /\ \A i \in DOMAIN sweep.P : sweep.P[i] # None /\ sweep.OPS[i] # None

\* the last two tasks are done before the second, the main thread has
\* fetched the first result and waits for the second
C10_Witness ==
    /\ sweep.pc = "collect" /\ sweep.l = 1
    /\ pool.done = {1, 3, 4}
    /\ oracle[1].sig # oracle[3].sig /\ oracle[2].sig \notin {oracle[1].sig, oracle[3].sig}

(***************************************************************************)
(* Claims about formulaFor.                                                *)
(***************************************************************************)
\* the operand's own sensitivity list: the analyzer run on the projection
OperandSensitivity ==
    guess(NewSlist(EntropyOf(fIn.P)),
          OperandProjection(fIn.OPS, fIn.P, fIn.shapeN, fIn.opNum))

\* the pairs (x, y): x a point of the operand's compressed domain, y the
\* operand of an encoding of the shape whose significant slice is x
RecordedPairs ==
    LET e == EntropyOf(fIn.P)
        osl == OperandSensitivity.val
    IN  {<<Uint(significantSlice(osl, BitsOfUint(j, e))), fIn.OPS[j][fIn.opNum + 1]>> :
            j \in {i \in DOMAIN fIn.P : fIn.P[i] = fIn.shapeN}}

Fits(a, b) == \A xy \in RecordedPairs : a * xy[1] + b = xy[2]

CoefficientRange ==
    (0 - MaxOperand * Pow2(MaxSweepBits))..(MaxOperand * Pow2(MaxSweepBits))

FitExists == \E a \in CoefficientRange, b \in CoefficientRange : Fits(a, b)

====
